---- MODULE Spec2Model ----
(***************************************************************************)
(* A state-machine model of WhisperTranscriber (src/src/index.ts): the     *)
(* memoized bring-up, the model load, the recording spans with their       *)
(* capture devices, decode/render jobs and pollers, and the teardown.      *)
(* One step of the model is one run-to-completion piece of the event loop: *)
(* a public call up to its first await, or one callback.                    *)
(***************************************************************************)
EXTENDS Naturals, Sequences, FiniteSets, TLC

\* ------------------------------------------------------------------ bounds
\* initialize() calls the callers issue
MaxInitCalls == 2
\* loadModel() calls that wait for the bring-up or start a byte transfer
MaxLoadCalls == 2
\* startRecording() calls that get as far as opening an audio context
MaxStarts == 2
\* chunks the capture devices deliver, over all spans
MaxChunks == 3

\* ------------------------------------------------------- program constants
\* the number of samples one raw chunk decodes to
ChunkSamples == {500, 1000}
\* what the engine's transcript accessor can return
NullText == "<null>"
Texts == {NullText, "", "a", "hello"}
\* fractions of the transfer done, in thousandths, handed to cbProgress
ProgressPermille == {0, 125, 1000}
\* what getUserMedia can fail with
DeviceErrors == {"Permission denied"}

\* -------------------------------------------------------------- variables
VARIABLES
  config,         \* this.config: [modelUrl, modelSize]              (l.13)
  instance,       \* this.instance: 0 is null/zero, else the handle  (l.14)
  mediaRecorder,  \* this.mediaRecorder: 0 is null, else a span id   (l.15)
  audioContext,   \* this.audioContext: 0 is null, else a span id    (l.16)
  isRecording,    \* this.isRecording                                (l.17)
  audio,          \* this.audio: NoAudio or a sample buffer          (l.18)
  audio0,         \* this.audio0                                     (l.19)
  Module,         \* this.Module: "null" or "module"                 (l.20)
  modelLoaded,    \* this.modelLoaded                                (l.21)
  initPromise,    \* this.initPromise: "null", "pending", "fulfilled"
                  \* or the text of the error it rejected with       (l.22)
  initStep,       \* where the bring-up (the async body of l.288) is
  runs,           \* how often each bring-up stage was started
  initCalls,      \* per initialize() call of a caller: what it observed
  loads,          \* loadModel() calls in flight: how many await the
                  \* bring-up, how many a byte transfer
  transfers,      \* loadRemote calls made
  installs,       \* FS_createDataFile calls that succeeded
  fsFile,         \* whether whisper.bin is in the runtime's file system
  spans,          \* per startRecording() that opened an audio context:
                  \* its context, device acquisition, recorder, poller
  jobs,           \* decode/render work in flight
  restartTimers,  \* setTimeout(() => this.startRecording(), 0) pending
  created,        \* engine instances the runtime has created
  engineStatus,   \* the last text given to set_status
  engineAudio,    \* the last buffer given to set_audio
  owed,           \* pollers live at a flip of isRecording to false that
                  \* have not ticked since
  last            \* the step just taken: operation, result, callbacks

ctrl == <<instance, mediaRecorder, audioContext, isRecording, audio, audio0,
          Module, modelLoaded, initPromise>>
bringUp == <<initStep, runs, initCalls>>
loading == <<loads, transfers, installs, fsFile>>
capture == <<spans, jobs, restartTimers, owed>>
engine == <<created, engineStatus, engineAudio>>
vars == <<config, ctrl, bringUp, loading, capture, engine, last>>

\* a null buffer; a rendered buffer is never empty (no chunk decodes to nothing)
NoAudio == <<>>
Null == "null"

\* ------------------------------------------------------------ the config
ModelNames == {"tiny.en", "base.en", "tiny-en-q5_1", "base-en-q5_1"}
Absent == "<absent>"

MODEL_URLS ==
  [m \in ModelNames |->
     "https://huggingface.co/ggerganov/whisper.cpp/resolve/main/ggml-" \o
     (CASE m = "tiny.en" -> "tiny.en"
        [] m = "base.en" -> "base.en"
        [] m = "tiny-en-q5_1" -> "tiny.en-q5_1"
        [] m = "base-en-q5_1" -> "base.en-q5_1") \o ".bin"]

MODEL_SIZES ==
  [m \in ModelNames |->
     CASE m = "tiny.en" -> 75
       [] m = "base.en" -> 142
       [] m = "tiny-en-q5_1" -> 31
       [] m = "base-en-q5_1" -> 57]

\* a || b on an optional string: the empty string is falsy too
OrElse(a, b) == IF a = Absent \/ a = "" THEN b ELSE a

\* a constructor that takes the locator from the table whatever is given
constructorTableUrl(given) ==
  [modelUrl  |-> MODEL_URLS[OrElse(given.modelSize, "base-en-q5_1")],
   modelSize |-> OrElse(given.modelSize, "base-en-q5_1")]

\* the constructor's resolution of the two model fields
constructor(given) ==
  [modelUrl  |-> OrElse(given.modelUrl,
                        MODEL_URLS[OrElse(given.modelSize, "base-en-q5_1")]),
   modelSize |-> OrElse(given.modelSize, "base-en-q5_1")]

\* the configurations a caller can construct the controller with
GivenConfigs ==
  [modelUrl : {Absent, "", "https://example.org/custom.bin"},
   modelSize : {Absent} \cup ModelNames]

DefaultGiven == [modelUrl |-> Absent, modelSize |-> Absent]

\* ------------------------------------------------------------ the record
\* of the step just taken
Step(op, res) ==
  [op |-> op, res |-> res, arg |-> <<>>,
   status |-> <<>>, progress |-> <<>>, text |-> <<>>]

WithStatus(s, texts) == [s EXCEPT !.status = texts]

\* ------------------------------------------------------------------ Init
InitWith(givens) ==
  /\ config \in {constructor(g) : g \in givens}
  /\ instance = 0
  /\ mediaRecorder = 0
  /\ audioContext = 0
  /\ isRecording = FALSE
  /\ audio = NoAudio
  /\ audio0 = NoAudio
  /\ Module = Null
  /\ modelLoaded = FALSE
  /\ initPromise = Null
  /\ initStep = "none"
  /\ runs = [coi |-> 0, helpers |-> 0, wasm |-> 0]
  /\ initCalls = <<>>
  /\ loads = [awaitInit |-> 0, transfer |-> 0]
  /\ transfers = 0
  /\ installs = 0
  /\ fsFile = FALSE
  /\ spans = <<>>
  /\ jobs = {}
  /\ restartTimers = 0
  /\ created = 0
  /\ engineStatus = Null
  /\ engineAudio = NoAudio
  /\ owed = {}
  /\ last = Step("new", "ok")

Init == InitWith({DefaultGiven})

\* ---------------------------------------------------------------- bring-up
Settled(p) == p \notin {Null, "pending"}

\* a bring-up that never looks at the memoized promise
initNeverMemoized == FALSE

\* l.284: the memoized promise is returned when there is one
initMemoized == initPromise # Null

\* initialize() as far as its first await (l.283-314): the state it leaves
\* the promise, the bring-up position and the stage counters in
initializeCall ==
  IF initMemoized
  THEN /\ UNCHANGED <<initPromise, initStep, runs>>
  ELSE /\ initPromise' = "pending"
       /\ initStep' = "coi"
       /\ runs' = [runs EXCEPT !.coi = @ + 1]

\* what a caller holding the memoized promise observes once it is settled
Observed(p) == IF p = "fulfilled" THEN "ok" ELSE p

\* a caller calls initialize()
initialize ==
  /\ Len(initCalls) < MaxInitCalls
  /\ initializeCall
  /\ initCalls' = Append(initCalls,
                         IF Settled(initPromise') THEN Observed(initPromise')
                         ELSE "pending")
  /\ last' = Step("initialize",
                  IF Settled(initPromise') THEN Observed(initPromise')
                  ELSE "pending")
  /\ UNCHANGED <<config, instance, mediaRecorder, audioContext, isRecording,
                 audio, audio0, Module, modelLoaded, loading, capture, engine>>

\* the promise settles: every caller waiting on it observes the outcome
settle(outcome) ==
  /\ initPromise' = outcome
  /\ initCalls' = [i \in 1..Len(initCalls) |->
                     IF initCalls[i] = "pending" THEN Observed(outcome)
                     ELSE initCalls[i]]

\* loadCOIServiceWorker() resolves, whether its script loaded or not
\* (l.258-281), and the bring-up goes on to loadHelpers() (l.299)
loadCOIServiceWorker ==
  /\ initStep = "coi"
  /\ initStep' = "helpers"
  /\ runs' = [runs EXCEPT !.helpers = @ + 1]
  /\ last' = Step("loadCOIServiceWorker", "ok")
  /\ UNCHANGED <<config, ctrl, initCalls, loading, capture, engine>>

\* the helpers script loads (l.241, l.251) and loadWasmModule() starts (l.303)
loadHelpers ==
  /\ initStep = "helpers"
  /\ initStep' = "wasm"
  /\ runs' = [runs EXCEPT !.wasm = @ + 1]
  /\ last' = Step("loadHelpers", "ok")
  /\ UNCHANGED <<config, ctrl, initCalls, loading, capture, engine>>

\* a rejection inside the bring-up: the catch rethrows it (l.307-310) and the
\* memoized promise rejects with it
bringUpFails(op, error) ==
  /\ initStep' = "failed"
  /\ settle(error)
  /\ last' = Step(op, error)
  /\ UNCHANGED <<config, instance, mediaRecorder, audioContext, isRecording,
                 audio, audio0, Module, modelLoaded, runs, loading, capture,
                 engine>>

\* the helpers script fails to load (l.242, l.252)
loadHelpersError ==
  /\ initStep = "helpers"
  /\ bringUpFails("loadHelpers", "Failed to load helpers")

\* the runtime script fails to load (l.219, l.225)
loadWasmModuleError ==
  /\ initStep = "wasm"
  /\ bringUpFails("loadWasmModule", "Failed to load WASM module")

\* the runtime calls onRuntimeInitialized, which sets a 100 ms timer (l.178-182)
onRuntimeInitialized ==
  /\ initStep = "wasm"
  /\ initStep' = "timer"
  /\ last' = Step("onRuntimeInitialized", "ok")
  /\ UNCHANGED <<config, ctrl, runs, initCalls, loading, capture, engine>>

\* the timer fires with window.Module there (l.183-202): the runtime reference
\* is taken, the bring-up reports 'Ready to load model' and the promise fulfils
runtimeTimer ==
  /\ initStep = "timer"
  /\ initStep' = "done"
  /\ Module' = "module"
  /\ settle("fulfilled")
  /\ last' = WithStatus(Step("loadWasmModule", "ok"),
                        <<"Ready to load model">>)
  /\ UNCHANGED <<config, instance, mediaRecorder, audioContext, isRecording,
                 audio, audio0, modelLoaded, runs, loading, capture, engine>>

\* the timer fires and window.Module is gone (l.203-205)
runtimeTimerNoModule ==
  /\ initStep = "timer"
  /\ bringUpFails("loadWasmModule",
                  "Module not available after runtime initialized")

\* ------------------------------------------------------------ model load
\* a loadModel() that never takes the early return
modelNeverAlreadyLoaded == FALSE

\* l.317: nothing to do when the model is loaded
modelAlreadyLoaded == modelLoaded

\* a caller calls loadModel() (l.316-322): it returns at once when the model
\* is loaded, and otherwise calls initialize() and awaits it
loadModel ==
  /\ IF modelAlreadyLoaded
     THEN /\ last' = Step("loadModel", "ok")
          /\ UNCHANGED <<initPromise, initStep, runs, loads>>
     ELSE /\ loads.awaitInit + transfers < MaxLoadCalls
          /\ initializeCall
          /\ loads' = [loads EXCEPT !.awaitInit = @ + 1]
          /\ last' = Step("loadModel", "pending")
  /\ UNCHANGED <<config, instance, mediaRecorder, audioContext, isRecording,
                 audio, audio0, Module, modelLoaded, initCalls, transfers,
                 installs, fsFile, capture, engine>>

\* a loadModel() call goes on after `await this.initialize()` (l.322-358): a
\* failed bring-up rejects it; otherwise it reports 'Loading model...' and
\* starts the byte transfer with the configured locator and the table's size
loadRemote ==
  /\ loads.awaitInit > 0
  /\ Settled(initPromise)
  /\ IF initPromise # "fulfilled"
     THEN /\ loads' = [loads EXCEPT !.awaitInit = @ - 1]
          /\ last' = Step("loadModel", initPromise)
          /\ UNCHANGED transfers
     ELSE /\ loads' = [loads EXCEPT !.awaitInit = @ - 1, !.transfer = @ + 1]
          /\ transfers' = transfers + 1
          /\ last' = [WithStatus(Step("loadRemote", "pending"),
                                 <<"Loading model...">>)
                        EXCEPT !.arg = <<config.modelUrl,
                                         MODEL_SIZES[config.modelSize]>>]
  /\ UNCHANGED <<config, ctrl, bringUp, installs, fsFile, capture, engine>>

\* Math.round(progress * 100) of a fraction given in thousandths (l.345)
RoundPercent(permille) == (permille + 5) \div 10

\* a transfer reports progress (l.344-346)
cbProgress(permille) ==
  /\ loads.transfer > 0
  /\ last' = [Step("cbProgress", "ok")
                EXCEPT !.progress = <<RoundPercent(permille)>>]
  /\ UNCHANGED <<config, ctrl, bringUp, loading, capture, engine>>

\* a transfer hands over the bytes (l.330-342). FS_unlink on a null runtime
\* or a missing file throws inside the try; FS_createDataFile on a null
\* runtime throws out of the callback, and the call's promise never settles
storeFS ==
  /\ loads.transfer > 0
  /\ loads' = [loads EXCEPT !.transfer = @ - 1]
  /\ IF Module = Null
     THEN /\ last' = Step("storeFS", "TypeError")
          /\ UNCHANGED <<modelLoaded, installs, fsFile>>
     ELSE /\ fsFile' = TRUE
          /\ installs' = installs + 1
          /\ modelLoaded' = TRUE
          /\ last' = WithStatus(Step("storeFS", "ok"),
                                <<"Model loaded successfully">>)
  /\ UNCHANGED <<config, instance, mediaRecorder, audioContext, isRecording,
                 audio, audio0, Module, initPromise, bringUp, transfers,
                 capture, engine>>

\* a transfer is cancelled (l.348-351)
cbCancel ==
  /\ loads.transfer > 0
  /\ loads' = [loads EXCEPT !.transfer = @ - 1]
  /\ last' = WithStatus(Step("cbCancel", "Model loading cancelled"),
                        <<"Model loading cancelled">>)
  /\ UNCHANGED <<config, ctrl, bringUp, transfers, installs, fsFile, capture,
                 engine>>

\* -------------------------------------------------------------- recording
\* a span: what one startRecording() that got as far as l.384 owns
NewSpan(acq) ==
  [ctx |-> "open", acq |-> acq, rec |-> "none", chunks |-> <<>>,
   poller |-> "none"]

SpanIds == 1..Len(spans)
LivePollers == {k \in SpanIds : spans[k].poller = "live"}

\* l.364: the error of a startRecording() without a model
ModelNotLoadedError == "Model not loaded. Call loadModel() first."

\* a startRecording() without the model-ready guard
modelNotLoadedUnchecked == FALSE

\* l.363: the model-ready guard
modelNotLoaded == ~modelLoaded

\* a startRecording() without the already-recording return
alreadyRecordingUnchecked == FALSE

\* l.367: nothing to do when recording
alreadyRecording == isRecording

\* a startRecording() that creates an engine instance every time
needInstanceAlways == TRUE

\* l.373: an engine instance is created only when there is none
needInstance == instance = 0

\* startRecording() as far as its first await (l.362-401), for the caller's
\* call and for the restart timer's. It leaves restartTimers alone.
startRecordingCall ==
  IF modelNotLoaded
  THEN /\ last' = Step("startRecording", ModelNotLoadedError)
       /\ UNCHANGED <<instance, audioContext, isRecording, spans, created,
                      engineStatus>>
  ELSE IF alreadyRecording
  THEN /\ last' = Step("startRecording", "ok")
       /\ UNCHANGED <<instance, audioContext, isRecording, spans, created,
                      engineStatus>>
  ELSE IF Module = Null
  THEN \* this.Module.init (l.375) or this.Module.set_status (l.393) throws
       /\ last' = Step("startRecording", "TypeError")
       /\ IF needInstance
          THEN UNCHANGED <<audioContext, spans>>
          ELSE /\ Len(spans) < MaxStarts
               /\ spans' = Append(spans, NewSpan("none"))
               /\ audioContext' = Len(spans) + 1
       /\ UNCHANGED <<instance, isRecording, created, engineStatus>>
  ELSE \E made \in BOOLEAN :
       IF needInstance /\ ~made
       THEN \* init('whisper.bin') returns 0 (l.376-379)
            /\ instance' = 0
            /\ last' = Step("startRecording", "Failed to initialize Whisper")
            /\ UNCHANGED <<audioContext, isRecording, spans, created,
                           engineStatus>>
       ELSE /\ made
            /\ Len(spans) < MaxStarts
            /\ IF needInstance
               THEN /\ created' = created + 1
                    /\ instance' = created + 1
               ELSE UNCHANGED <<created, instance>>
            /\ spans' = Append(spans, NewSpan("pending"))
            /\ audioContext' = Len(spans) + 1
            /\ engineStatus' = ""
            /\ isRecording' = TRUE
            /\ last' = WithStatus(Step("startRecording", "pending"),
                                  <<"Recording...">>)

\* a caller calls startRecording()
startRecording ==
  /\ startRecordingCall
  /\ UNCHANGED <<config, mediaRecorder, audio, audio0, Module, modelLoaded,
                 initPromise, bringUp, loading, jobs, restartTimers, owed,
                 engineAudio>>

\* the timer set by onstop fires (l.452)
restartTimer ==
  /\ restartTimers > 0
  /\ restartTimers' = restartTimers - 1
  /\ startRecordingCall
  /\ UNCHANGED <<config, mediaRecorder, audio, audio0, Module, modelLoaded,
                 initPromise, bringUp, loading, jobs, owed, engineAudio>>

\* startTranscriptionPolling() (l.467-468): the span's timer is set
startTranscriptionPolling(span) == [span EXCEPT !.poller = "live"]

\* getUserMedia resolves (l.401-459): the recorder is made, its handlers are
\* set, it starts, and the poller is started
getUserMediaResolves(k) ==
  /\ spans[k].acq = "pending"
  /\ mediaRecorder' = k
  /\ spans' = [spans EXCEPT ![k] =
                 startTranscriptionPolling(
                   [@ EXCEPT !.acq = "ok", !.rec = "recording"])]
  /\ last' = Step("getUserMedia", "ok")
  /\ UNCHANGED <<config, instance, audioContext, isRecording, audio, audio0,
                 Module, modelLoaded, initPromise, bringUp, loading, jobs,
                 restartTimers, owed, engine>>

\* a catch that leaves isRecording as it is
acquisitionFailedKeepsFlag(k, error) ==
  /\ UNCHANGED isRecording
  /\ spans' = [spans EXCEPT ![k].acq = "failed"]
  /\ last' = WithStatus(Step("getUserMedia", error),
                        <<"Error: " \o error>>)

\* the catch of l.460-464, for the span whose acquisition failed
acquisitionFailed(k, error) ==
  /\ isRecording' = FALSE
  /\ spans' = [spans EXCEPT ![k].acq = "failed"]
  /\ last' = WithStatus(Step("getUserMedia", error),
                        <<"Error: " \o error>>)

\* getUserMedia rejects
getUserMediaRejects(k, error) ==
  /\ spans[k].acq = "pending"
  /\ acquisitionFailed(k, error)
  /\ UNCHANGED <<config, instance, mediaRecorder, audioContext, audio, audio0,
                 Module, modelLoaded, initPromise, bringUp, loading, jobs,
                 restartTimers, owed, engine>>

\* ---------------------------------------------------------------- capture
RECURSIVE Sum(_)
Sum(s) == IF s = <<>> THEN 0 ELSE Head(s) + Sum(Tail(s))

ChunksDelivered == Sum([k \in SpanIds |-> Len(spans[k].chunks)])

\* l.405-408: the chunk is pushed and the blob holds every chunk so far
cumulativeBlob(chunks, chunk) == Append(chunks, chunk)

\* a job: the blob read, decoded and rendered for one chunk of a span
NewJob(k, blob) == [span |-> k, blob |-> blob, stage |-> "read"]

\* the recorder of span k delivers a chunk (l.404-448, as far as
\* reader.readAsArrayBuffer)
ondataavailable(k, chunk) ==
  /\ spans[k].rec = "recording"
  /\ ChunksDelivered < MaxChunks
  /\ spans' = [spans EXCEPT ![k].chunks = cumulativeBlob(@, chunk)]
  /\ jobs' = jobs \cup {NewJob(k, cumulativeBlob(spans[k].chunks, chunk))}
  /\ last' = Step("ondataavailable", "ok")
  /\ UNCHANGED <<config, ctrl, bringUp, loading, restartTimers, owed, engine>>

\* reader.onload (l.410-415): without an audio context the job ends,
\* otherwise the current context starts decoding
readerOnload(j) ==
  /\ j \in jobs
  /\ j.stage = "read"
  /\ IF audioContext = 0
     THEN /\ jobs' = jobs \ {j}
          /\ last' = Step("readerOnload", "dropped")
     ELSE /\ jobs' = (jobs \ {j}) \cup {[j EXCEPT !.stage = "decode"]}
          /\ last' = Step("readerOnload", "decoding")
  /\ UNCHANGED <<config, ctrl, bringUp, loading, spans, restartTimers, owed,
                 engine>>

\* decodeAudioData fails: no error callback is given (l.415), the job ends
decodeFails(j) ==
  /\ j \in jobs
  /\ j.stage = "decode"
  /\ jobs' = jobs \ {j}
  /\ last' = Step("decodeAudioData", "failed")
  /\ UNCHANGED <<config, ctrl, bringUp, loading, spans, restartTimers, owed,
                 engine>>

\* decoding and rendering a blob: the samples of every chunk in it, in
\* order, each run of samples named by its span, its chunk and its length
decodeAudioData(k, blob) == [i \in 1..Len(blob) |-> <<k, i, blob[i]>>]

\* the number of samples in a buffer (Float32Array.length)
length(buffer) == Sum([i \in 1..Len(buffer) |-> buffer[i][3]])

\* an audioAll that puts the new decode after what was fed before
audioAllAfterFed(a0, a) == IF engineAudio = NoAudio THEN a ELSE engineAudio \o a

\* l.430-437: audioAll is audio0 followed by audio
audioAll(a0, a) == IF a0 = NoAudio THEN a ELSE a0 \o a

\* a render that waits for the earlier blobs of its span
renderReadyInOrder(j) ==
  /\ j.stage = "decode"
  /\ \A i \in jobs : i.span = j.span => Len(i.blob) >= Len(j.blob)

\* l.415-428: a blob's render completes when its own decode and render are
\* done; nothing orders it after the blobs delivered before it
renderReady(j) == j.stage = "decode"

\* the decode and the offline render of a job complete (l.415-443);
\* nothing of the controller is read or written between the two. A feed
\* is recorded with the length of the buffer it replaces in the engine.
startRendering(j) ==
  /\ j \in jobs
  /\ renderReady(j)
  /\ jobs' = jobs \ {j}
  /\ audio' = decodeAudioData(j.span, j.blob)
  /\ IF instance = 0
     THEN /\ last' = Step("startRendering", "no instance")
          /\ UNCHANGED engineAudio
     ELSE IF Module = Null
     THEN /\ last' = Step("startRendering", "TypeError")
          /\ UNCHANGED engineAudio
     ELSE /\ engineAudio' = audioAll(audio0, audio')
          /\ last' = [Step("startRendering", "fed")
                        EXCEPT !.arg = <<length(engineAudio)>>]
  /\ UNCHANGED <<config, instance, mediaRecorder, audioContext, isRecording,
                 audio0, Module, modelLoaded, initPromise, bringUp, loading,
                 spans, restartTimers, owed, created, engineStatus>>

\* the tracks of span k's stream end: its recorder stops by itself
trackEnded(k) ==
  /\ spans[k].rec = "recording"
  /\ spans' = [spans EXCEPT ![k].rec = "stopping"]
  /\ last' = Step("trackEnded", "ok")
  /\ UNCHANGED <<config, ctrl, bringUp, loading, jobs, restartTimers, owed,
                 engine>>

\* l.451: restart only while recording
restartWanted == isRecording

\* a stopped recorder's task: the last chunk is delivered (l.404-448), then
\* the stop event (l.450-454)
onstop(k, chunk) ==
  /\ spans[k].rec = "stopping"
  /\ ChunksDelivered < MaxChunks
  /\ spans' = [spans EXCEPT ![k].chunks = cumulativeBlob(@, chunk),
                            ![k].rec = "inactive"]
  /\ jobs' = jobs \cup {NewJob(k, cumulativeBlob(spans[k].chunks, chunk))}
  /\ restartTimers' = IF restartWanted THEN restartTimers + 1
                      ELSE restartTimers
  /\ last' = Step("onstop", IF restartWanted THEN "restart" ELSE "ok")
  /\ UNCHANGED <<config, ctrl, bringUp, loading, owed, engine>>

\* ----------------------------------------------------------------- poller
\* a check that forwards every non-empty text
forwardedNonEmpty(t) == t # NullText /\ Len(t) > 0

\* l.477: what is forwarded to onTranscription
forwarded(t) == t # NullText /\ Len(t) > 1

\* a tick of span k's poller (l.468-480); t is what the engine would return
pollTick(k, t) ==
  /\ spans[k].poller = "live"
  /\ owed' = owed \ {k}
  /\ IF ~isRecording
     THEN /\ spans' = [spans EXCEPT ![k].poller = "cleared"]
          /\ last' = Step("pollTick", "cleared")
     ELSE IF Module = Null
     THEN /\ last' = Step("pollTick", "TypeError")
          /\ UNCHANGED spans
     ELSE /\ last' = [Step("pollTick", "pulled")
                        EXCEPT !.text = IF forwarded(t) THEN <<t>> ELSE <<>>]
          /\ UNCHANGED spans
  /\ UNCHANGED <<config, ctrl, bringUp, loading, jobs, restartTimers, engine>>

\* ------------------------------------------------------------- stop, destroy
\* a stopRecording() without the early return
notRecordingUnchecked == FALSE

\* l.484: nothing to do when not recording
notRecording == ~isRecording

\* stopRecording() throws at this.Module.set_status (l.489)
stopThrows == ~notRecording /\ Module = Null

\* MediaRecorder.stop() on the recorder of span k
recorderStop(span) ==
  IF span.rec = "recording" THEN [span EXCEPT !.rec = "stopping"] ELSE span

\* AudioContext.close() on the context of span k
contextClose(span) == [span EXCEPT !.ctx = "closed"]

\* stopRecording() (l.483-506), on what it writes; op names the caller
stopRecordingCall ==
  IF notRecording \/ stopThrows
  THEN UNCHANGED <<engineStatus, isRecording, audio0, audio, mediaRecorder,
                   audioContext, spans, owed>>
  ELSE /\ engineStatus' = "paused"
       /\ isRecording' = FALSE
       /\ audio0' = NoAudio
       /\ audio' = NoAudio
       /\ mediaRecorder' = 0
       /\ audioContext' = 0
       /\ spans' = [k \in SpanIds |->
                      LET s1 == IF k = mediaRecorder THEN recorderStop(spans[k])
                                ELSE spans[k]
                      IN IF k = audioContext THEN contextClose(s1) ELSE s1]
       /\ owed' = owed \cup LivePollers

stopResult ==
  IF notRecording THEN "not recording"
  ELSE IF stopThrows THEN "TypeError" ELSE "ok"

stopStatus == IF notRecording \/ stopThrows THEN <<>> ELSE <<"Stopped">>

\* a caller calls stopRecording()
stopRecording ==
  /\ stopRecordingCall
  /\ last' = WithStatus(Step("stopRecording", stopResult), stopStatus)
  /\ UNCHANGED <<config, instance, Module, modelLoaded, initPromise, bringUp,
                 loading, jobs, restartTimers, created, engineAudio>>

\* a destroy() that keeps the engine instance
destroyKeepsInstance ==
  /\ UNCHANGED instance
  /\ Module' = Null
  /\ modelLoaded' = FALSE

\* a destroy() that leaves the model-ready flag set
destroyKeepsModel ==
  /\ instance' = 0
  /\ Module' = Null
  /\ UNCHANGED modelLoaded

\* l.510-512: what destroy() releases after stopRecording() returned
destroyReleases ==
  /\ instance' = 0
  /\ Module' = Null
  /\ modelLoaded' = FALSE

\* a caller calls destroy() (l.508-513)
destroy ==
  /\ stopRecordingCall
  /\ IF stopThrows
     THEN UNCHANGED <<instance, Module, modelLoaded>>
     ELSE destroyReleases
  /\ last' = WithStatus(Step("destroy",
                             IF stopThrows THEN "TypeError" ELSE "ok"),
                        stopStatus)
  /\ UNCHANGED <<config, initPromise, bringUp, loading, jobs, restartTimers,
                 created, engineAudio>>

\* ---------------------------------------------------------- specifications
\* every step of the program
Next ==
  \/ initialize
  \/ loadCOIServiceWorker
  \/ loadHelpers
  \/ loadHelpersError
  \/ loadWasmModuleError
  \/ onRuntimeInitialized
  \/ runtimeTimer
  \/ runtimeTimerNoModule
  \/ loadModel
  \/ loadRemote
  \/ \E p \in ProgressPermille : cbProgress(p)
  \/ storeFS
  \/ cbCancel
  \/ startRecording
  \/ restartTimer
  \/ \E k \in SpanIds : getUserMediaResolves(k)
  \/ \E k \in SpanIds, e \in DeviceErrors : getUserMediaRejects(k, e)
  \/ \E k \in SpanIds, c \in ChunkSamples : ondataavailable(k, c)
  \/ \E j \in jobs : readerOnload(j)
  \/ \E j \in jobs : decodeFails(j)
  \/ \E j \in jobs : startRendering(j)
  \/ \E k \in SpanIds : trackEnded(k)
  \/ \E k \in SpanIds, c \in ChunkSamples : onstop(k, c)
  \/ \E k \in SpanIds, t \in Texts : pollTick(k, t)
  \/ stopRecording
  \/ destroy

Spec == Init /\ [][Next]_vars

\* The bring-up and the model load, with any number of concurrent callers,
\* every failure of the bring-up, and destroy(); nothing is recorded.
NextBringUp ==
  \/ initialize
  \/ loadCOIServiceWorker
  \/ loadHelpers
  \/ loadHelpersError
  \/ loadWasmModuleError
  \/ onRuntimeInitialized
  \/ runtimeTimer
  \/ runtimeTimerNoModule
  \/ loadModel
  \/ loadRemote
  \/ \E p \in ProgressPermille : cbProgress(p)
  \/ storeFS
  \/ cbCancel
  \/ destroy

SpecBringUp == Init /\ [][NextBringUp]_vars

\* callers that issue loadModel() one call at a time until one of the calls
\* has started a byte transfer
loadModelOnce ==
  /\ loads.awaitInit = 0
  /\ transfers = 0
  /\ loadModel

\* Recording: the callers load the model with one transfer and start,
\* stop and destroy in any order, while devices are acquired or refused,
\* recorders stop, restart timers fire and pollers tick. The chunks the
\* recorders deliver are left unread: no step here reads what the decode
\* and render steps write (audio, the engine's buffer), so a stopping
\* recorder's last chunk is given one size.
NextRecording ==
  \/ loadCOIServiceWorker
  \/ loadHelpers
  \/ loadHelpersError
  \/ loadWasmModuleError
  \/ onRuntimeInitialized
  \/ runtimeTimer
  \/ loadModelOnce
  \/ loadRemote
  \/ storeFS
  \/ cbCancel
  \/ startRecording
  \/ restartTimer
  \/ \E k \in SpanIds : getUserMediaResolves(k)
  \/ \E k \in SpanIds, e \in DeviceErrors : getUserMediaRejects(k, e)
  \/ \E k \in SpanIds : trackEnded(k)
  \/ \E k \in SpanIds, c \in {500} : onstop(k, c)
  \/ \E k \in SpanIds, t \in Texts : pollTick(k, t)
  \/ stopRecording
  \/ destroy

SpecRecording == Init /\ [][NextRecording]_vars

\* Configuration: the controller is constructed with any configuration, is
\* brought up and loads its model, with progress reports and cancellation.
InitConfig == InitWith(GivenConfigs)

NextConfig ==
  \/ initialize
  \/ loadCOIServiceWorker
  \/ loadHelpers
  \/ onRuntimeInitialized
  \/ runtimeTimer
  \/ loadModelOnce
  \/ loadRemote
  \/ \E p \in ProgressPermille : cbProgress(p)
  \/ storeFS
  \/ cbCancel

SpecConfig == InitConfig /\ [][NextConfig]_vars

\* the first startRecording() of the controller
startRecordingFirst == spans = <<>> /\ startRecording

\* Capture: the model is loaded, one recording is started and stopped, and
\* the recorder's chunks are read, decoded, rendered and fed, in any order.
NextCapture ==
  \/ loadCOIServiceWorker
  \/ loadHelpers
  \/ onRuntimeInitialized
  \/ runtimeTimer
  \/ loadModelOnce
  \/ loadRemote
  \/ storeFS
  \/ startRecordingFirst
  \/ \E k \in SpanIds : getUserMediaResolves(k)
  \/ \E k \in SpanIds, c \in ChunkSamples : ondataavailable(k, c)
  \/ \E j \in jobs : readerOnload(j)
  \/ \E j \in jobs : decodeFails(j)
  \/ \E j \in jobs : startRendering(j)
  \/ stopRecording
  \/ \E k \in SpanIds, c \in ChunkSamples : onstop(k, c)

SpecCapture == Init /\ [][NextCapture]_vars

\* the first chunk any recorder delivers, of one size
firstChunk(k) == ChunksDelivered = 0 /\ ondataavailable(k, 500)

\* Lifecycle: any number of concurrent loadModel() calls, recordings
\* started and stopped, one chunk read, decoded, rendered and fed, pollers
\* ticking, and destroy() at any point of it.
NextLifecycle ==
  \/ loadCOIServiceWorker
  \/ loadHelpers
  \/ onRuntimeInitialized
  \/ runtimeTimer
  \/ loadModel
  \/ loadRemote
  \/ storeFS
  \/ startRecording
  \/ \E k \in SpanIds : getUserMediaResolves(k)
  \/ \E k \in SpanIds : firstChunk(k)
  \/ \E j \in jobs : readerOnload(j)
  \/ \E j \in jobs : startRendering(j)
  \/ \E k \in SpanIds : pollTick(k, "hello")
  \/ stopRecording
  \/ destroy

SpecLifecycle == Init /\ [][NextLifecycle]_vars

\* ------------------------------------------------------------------ claims
Outcomes == {initCalls[i] : i \in 1..Len(initCalls)} \ {"pending"}

\* C1: however many initialize() calls are issued, one after another or
\* while the bring-up is under way, each stage of the bring-up (isolation
\* bootstrap, helper load, runtime activation) is started at most once, and
\* exactly once as soon as a call was made; the callers that have an outcome
\* all have the same one, the one the memoized promise settled with.
C1_InitializeOnce ==
  /\ runs.coi <= 1 /\ runs.helpers <= 1 /\ runs.wasm <= 1
  /\ (Len(initCalls) > 0 \/ loads.awaitInit > 0 \/ transfers > 0)
       => runs.coi = 1
  /\ Cardinality(Outcomes) <= 1
  /\ \A i \in 1..Len(initCalls) :
       initCalls[i] = (IF Settled(initPromise) THEN Observed(initPromise)
                       ELSE "pending")

\* two callers waited on the same bring-up, which ran each stage once, and
\* both were told of its success by the step that settled it
C1_Witness ==
  /\ initCalls = <<"ok", "ok">>
  /\ last.op = "loadWasmModule"
  /\ runs = [coi |-> 1, helpers |-> 1, wasm |-> 1]

\* C2: a loadModel() call made when the model is loaded (an earlier call has
\* succeeded and no destroy() came since) returns success and starts no
\* transfer, installs nothing, awaits nothing and fires no status or progress
\* callback.
C2_SecondLoadIsNoOp ==
  [][(modelLoaded /\ loadModel) =>
       /\ last'.res = "ok"
       /\ last'.status = <<>>
       /\ last'.progress = <<>>
       /\ UNCHANGED <<transfers, installs, fsFile, loads, modelLoaded,
                      initPromise, initStep, runs>>]_vars

\* a second loadModel() has just returned success after the one transfer and
\* the one install of the first
C2_Witness ==
  /\ last.op = "loadModel"
  /\ last.res = "ok"
  /\ modelLoaded
  /\ transfers = 1
  /\ installs = 1

\* C3: a startRecording() made while the model is not loaded, by a caller
\* or by the restart timer, is rejected with the "Model not loaded" error and
\* changes nothing: no engine instance, no audio context, no recording span,
\* no poller, no status callback, and the recording flag stays as it was.
C3_StartNeedsModel ==
  [][(~modelLoaded /\ (startRecording \/ restartTimer)) =>
       /\ last'.res = ModelNotLoadedError
       /\ last'.status = <<>>
       /\ ~isRecording'
       /\ UNCHANGED <<ctrl, spans, jobs, owed, engine>>]_vars

\* a startRecording() was rejected for want of a model on a controller that
\* had recorded before and was destroyed
C3_Witness ==
  /\ last.op = "startRecording"
  /\ last.res = ModelNotLoadedError
  /\ ~modelLoaded
  /\ Len(spans) > 0
  /\ Module = Null

\* C4: while no destroy() is made, an engine instance that exists is never
\* replaced: a step creates an instance only when there is none, so every
\* recording span after the first uses the instance the first one created.
C4_EngineCreatedOnce ==
  [][/\ (instance # 0 /\ ~destroy) =>
          (instance' = instance /\ created' = created)
     /\ created' # created =>
          (instance = 0 /\ created' = created + 1 /\ instance' = created')
     /\ Len(spans') > Len(spans) => instance' # 0]_vars

\* a second recording span has acquired its device on the instance the
\* first span created
C4_Witness ==
  /\ Len(spans) = 2
  /\ spans[1].acq = "ok"
  /\ spans[2].acq = "ok"
  /\ isRecording
  /\ created = 1
  /\ instance = 1

\* C5: the buffer fed to the engine when the render of a span's k-th blob
\* completes is the decode of the span's first k chunks, each chunk's
\* samples once and in order; nothing fed before is put in front of it, so
\* its length is the cumulative sample count of those k chunks.
C5_FedBufferIsCumulativeDecode ==
  [][\A j \in jobs : (startRendering(j) /\ last'.res = "fed") =>
       /\ engineAudio' =
            [i \in 1..Len(j.blob) |-> <<j.span, i, spans[j.span].chunks[i]>>]
       /\ length(engineAudio') =
            Sum(SubSeq(spans[j.span].chunks, 1, Len(j.blob)))
       /\ audio0' = NoAudio]_vars

\* chunks whose cumulative decodes have 1000, 1500 and 2000 samples: the
\* third segment has just been fed, with 2000 samples
C5_Witness ==
  /\ Len(spans) = 1
  /\ spans[1].chunks = <<1000, 500, 500>>
  /\ jobs = {}
  /\ last.op = "startRendering"
  /\ last.res = "fed"
  /\ length(engineAudio) = 2000
  /\ Len(engineAudio) = 3

\* C6: a poller that was live when stopRecording() set the recording flag
\* to false clears itself at its next tick, whatever was called before
\* that tick.
C6_PollerStopsWithinOneTick ==
  [][\A k \in SpanIds :
       (k \in owed /\ \E t \in Texts : pollTick(k, t)) =>
         spans'[k].poller = "cleared"]_vars

\* C7: a tick of a poller calls onTranscription exactly when it finds the
\* recording flag true and the engine returns a text of more than one
\* character, and then with that text unchanged; a tick that finds the flag
\* false clears the poller and calls nothing.
C7_TranscriptionForwarding ==
  [][\A k \in SpanIds, t \in Texts : pollTick(k, t) =>
       IF isRecording
       THEN /\ last'.res = "pulled"
            /\ last'.text = (IF t # NullText /\ Len(t) > 1 THEN <<t>>
                             ELSE <<>>)
            /\ spans'[k].poller = "live"
       ELSE /\ last'.res = "cleared"
            /\ last'.text = <<>>
            /\ spans'[k].poller = "cleared"]_vars

\* a tick has just forwarded the text "hello"
C7_Witness ==
  /\ last.op = "pollTick"
  /\ last.res = "pulled"
  /\ last.text = <<"hello">>
  /\ isRecording

\* C8: destroy() returns normally in every state and leaves the controller
\* without engine instance, without runtime, not recording and without a
\* loaded model; after it the model becomes loaded again only by an install
\* on an activated runtime, and until then every startRecording() is
\* rejected with the "Model not loaded" error.
C8_DestroySafe ==
  [][/\ destroy =>
          /\ last'.res = "ok"
          /\ instance' = 0
          /\ Module' = Null
          /\ ~isRecording'
          /\ ~modelLoaded'
     /\ (~modelLoaded /\ modelLoaded') =>
          (last'.op = "storeFS" /\ initPromise = "fulfilled"
             /\ Module = "module")
     /\ (~modelLoaded /\ (startRecording \/ restartTimer)) =>
          (last'.res = ModelNotLoadedError /\ ~isRecording')]_vars

\* destroy() has just returned on a controller that had recorded and was
\* already stopped: it had nothing left to stop
C8_Witness ==
  /\ last.op = "destroy"
  /\ last.res = "ok"
  /\ last.status = <<>>
  /\ Len(spans) > 0
  /\ spans[1].acq = "ok"
  /\ created = 1
  /\ instance = 0

\* C9: after a failed bring-up the callers have seen the failure, and a
\* later initialize() call runs the bring-up again.
C9_FailedInitializeRetries ==
  [][(initStep = "failed" /\ initialize) =>
       /\ Outcomes \subseteq {initPromise}
       /\ runs'.coi = runs.coi + 1
       /\ initPromise' = "pending"]_vars

\* C10: when the device acquisition of a startRecording() fails, the
\* recording flag becomes false, the status callback gets "Error: " and the
\* error's message, the error goes to the caller, no poller is started, no
\* recorder is made, and the engine instance and the loaded model are kept,
\* so a later startRecording() can be attempted.
C10_AcquisitionFailure ==
  [][\A k \in SpanIds, e \in DeviceErrors : getUserMediaRejects(k, e) =>
       /\ ~isRecording'
       /\ last'.status = <<"Error: " \o e>>
       /\ last'.res = e
       /\ \A i \in SpanIds : spans'[i].poller = spans[i].poller
       /\ spans'[k].poller = "none"
       /\ spans'[k].rec = "none"
       /\ UNCHANGED <<instance, modelLoaded, mediaRecorder, Module>>]_vars

\* a device acquisition has just failed on a controller with a loaded model
\* and an engine instance
C10_Witness ==
  /\ last.op = "getUserMedia"
  /\ last.res \in DeviceErrors
  /\ last.status = <<"Error: Permission denied">>
  /\ ~isRecording
  /\ modelLoaded
  /\ instance # 0

\* C11: stopRecording() never changes the engine instance, the model-ready
\* flag, the runtime reference or the memoized bring-up promise; and when
\* the recording flag is false it changes nothing at all, gives the engine
\* no status and calls no status callback.
C11_StopRecordingFrame ==
  [][stopRecording =>
       /\ UNCHANGED <<instance, created, modelLoaded, Module, initPromise,
                      initStep, fsFile>>
       /\ ~isRecording =>
            /\ UNCHANGED <<config, ctrl, bringUp, loading, capture, engine>>
            /\ last'.res = "not recording"
            /\ last'.status = <<>>]_vars

\* a stopRecording() on a controller that was already stopped has just
\* returned, with the instance and the model of the recording still there
C11_Witness ==
  /\ last.op = "stopRecording"
  /\ last.res = "not recording"
  /\ engineStatus = "paused"
  /\ instance # 0
  /\ modelLoaded
  /\ Module # Null

\* C12: when the restart that a recorder's stop event scheduled runs while
\* the recording flag is still true, it begins a new recording span with a
\* new device acquisition.
C12_RestartAcquiresDevice ==
  [][(isRecording /\ restartTimer) =>
       /\ Len(spans') = Len(spans) + 1
       /\ spans'[Len(spans')].acq = "pending"]_vars

\* C13: an initialize() on a controller whose runtime destroy() released
\* after a finished bring-up runs the bring-up again, and a byte transfer
\* that hands over its bytes after a successful bring-up installs the model.
C13_ReinitializeAfterDestroy ==
  [][/\ (initStep = "done" /\ Module = Null /\ initialize) =>
          (initStep' = "coi" /\ initPromise' = "pending")
     /\ (initPromise = "fulfilled" /\ last.op = "loadRemote" /\ storeFS) =>
          modelLoaded']_vars



\* C14: for every configuration the controller can be constructed with
\* (model size given or not, locator given or not; an empty string counts
\* as not given): the resolved model size is the given one, or else the
\* one default 'base-en-q5_1'; the locator handed to the byte transfer is
\* the given locator, or else the table's locator of the resolved size; the
\* size hint handed to it is always the table's size of the resolved size,
\* 75 for 'tiny.en'.
C14_ConfigResolution ==
  LET isGiven(x) == x \notin {Absent, ""}
      size(g) == IF isGiven(g.modelSize) THEN g.modelSize ELSE "base-en-q5_1"
      url(g) == IF isGiven(g.modelUrl) THEN g.modelUrl ELSE MODEL_URLS[size(g)]
  IN /\ \E g \in GivenConfigs : config = constructor(g)
     /\ \A g \in GivenConfigs : config = constructor(g) =>
           /\ config = [modelUrl |-> url(g), modelSize |-> size(g)]
           /\ last.op = "loadRemote" =>
                 last.arg = <<url(g), MODEL_SIZES[size(g)]>>
     /\ \A g \in GivenConfigs :
           constructor(g) = [modelUrl |-> url(g), modelSize |-> size(g)]
     /\ config.modelSize = "tiny.en" /\ last.op = "loadRemote" =>
           last.arg[2] = 75

\* a controller constructed with {modelSize: 'tiny.en'} has just started
\* its byte transfer, with the tiny.en locator of the table and size 75
C14_Witness ==
  /\ config = constructor([modelUrl |-> Absent, modelSize |-> "tiny.en"])
  /\ last.op = "loadRemote"
  /\ last.arg = <<"https://huggingface.co/ggerganov/whisper.cpp/resolve/main/ggml-tiny.en.bin", 75>>


\* C15: the completion of a decode and render that belongs to a recording
\* span whose audio context stopRecording() has closed writes no sample
\* buffer and feeds nothing to the engine.
C15_StoppedSpanNeverFeeds ==
  [][\A j \in jobs : (spans[j.span].ctx = "closed" /\ startRendering(j)) =>
       UNCHANGED <<audio, engineAudio>>]_vars

\* C16: feeds are not serialized by segment order: every blob whose decode
\* is in flight can complete next, whatever other blobs of its span are in
\* flight, so the shorter buffer of an earlier segment can reach the engine
\* after the longer buffer of a later one.
C16_FeedsNotSerialized ==
  \A j \in jobs : j.stage = "decode" => ENABLED startRendering(j)

\* the engine has just been fed the 1000 samples of a span's first segment
\* in place of the 1500 samples of its second
C16_Witness ==
  /\ last.op = "startRendering"
  /\ last.res = "fed"
  /\ last.arg = <<1500>>
  /\ length(engineAudio) = 1000
  /\ Len(engineAudio) = 1
  /\ isRecording

\* C17: a startRecording() made while the recording flag is true, by a
\* caller or by the restart timer, returns success and changes nothing: no
\* recording span (audio context, device acquisition, poller), no engine
\* instance, no status callback, and the recorder, the audio context and
\* the sample buffers stay as they are.
C17_StartWhileRecordingIsNoOp ==
  [][(isRecording /\ (startRecording \/ restartTimer)) =>
       /\ last'.res = "ok"
       /\ last'.status = <<>>
       /\ isRecording'
       /\ UNCHANGED <<ctrl, spans, jobs, owed, engine>>]_vars

\* a startRecording() has just returned success on a controller that is
\* recording with the one device it acquired
C17_Witness ==
  /\ last.op = "startRecording"
  /\ last.res = "ok"
  /\ isRecording
  /\ Len(spans) = 1
  /\ spans[1].rec = "recording"
  /\ mediaRecorder = 1
  /\ created = 1


\* C18: in every state, the recording flag true implies the model loaded
\* and an engine instance; an engine instance or a loaded model implies a
\* runtime reference; hence no poll tick, feed, startRecording(),
\* stopRecording() or destroy() ends in a TypeError on a released runtime.
C18_RuntimeInvariants ==
  /\ isRecording => (modelLoaded /\ instance # 0)
  /\ (instance # 0 \/ modelLoaded) => Module # Null
  /\ last.res = "TypeError" => last.op = "storeFS"

\* the render of a chunk has just completed on a destroyed controller: with
\* the instance released it feeds nothing and touches no runtime
C18_Witness ==
  /\ last.op = "startRendering"
  /\ last.res = "no instance"
  /\ Module = Null
  /\ ~modelLoaded
  /\ ~isRecording
  /\ created = 1

\* C19: whenever the recording flag is false and no device acquisition is
\* pending, every audio context is closed and no recorder is capturing.
C19_NothingOpenWhenIdle ==
  (~isRecording /\ \A k \in SpanIds : spans[k].acq # "pending") =>
    /\ audioContext = 0
    /\ \A k \in SpanIds : spans[k].ctx = "closed" /\ spans[k].rec # "recording"

\* C20: the restart timer that fires right after a stopRecording() that
\* stopped the recording leaves the recording flag false and begins no
\* recording span.
C20_NoResumeAfterStop ==
  [][(last.op = "stopRecording" /\ last.res = "ok" /\ restartTimer) =>
       /\ ~isRecording'
       /\ spans' = spans
       /\ last'.status = <<>>]_vars

\* C21: at most one poller timer is live at any time.
C21_AtMostOnePoller == Cardinality(LivePollers) <= 1

\* C22: at most one byte transfer of the model is in flight at any time,
\* and the model file is installed at most once.
C22_AtMostOneTransfer ==
  /\ loads.transfer <= 1
  /\ installs <= 1
====
